---- MODULE Spec2Model ----
\* Model of the Jenkins agent installer/monitor scripts:
\*   Jenkins_Agent/Scripts/test.py                  (install + monitor loop)
\*   Jenkins_Agent/Scripts/Jenkins_agent_manager.py (install only)
\* A state is the position the process stands at: a blocking call
\* (subprocess.run, time.sleep, file write, SMTP session), a logging call
\* (emit # {}), or a point between two of them where a signal would find
\* something else done or its handler's exception would unwind differently.
EXTENDS Integers, Sequences, FiniteSets, TLC

\* ---------------------------------------------------------------- bounds
MaxTicks == 2
MaxSignals == 1
MaxRetries == 3

\* ------------------------------------------------------ program constants
DefaultRetries == 3
DefaultDelay == 5
CHECK_INTERVAL == 30

\* ------------------------------------------------------------- strings
\* Text the code inspects is a sequence of Unicode code points:
\* "active\n" is <<97, 99, 116, 105, 118, 101, 10>>.
ACTIVE == <<97, 99, 116, 105, 118, 101>>
RUNNING == <<82, 85, 78, 78, 73, 78, 71>>
\* "Jenkins Agent Alert: "
AlertPrefix == <<74, 101, 110, 107, 105, 110, 115, 32, 65, 103, 101, 110, 116, 32, 65, 108, 101, 114, 116, 58, 32>>
NoOutput == <<-1>>

\* str.isspace(), the characters str.strip() removes: \t \n \v \f \r,
\* \x1c-\x1f, space, \x85, \xa0 and the Unicode space separators
IsSpace(c) == c \in (9..13) \cup (28..32) \cup {133, 160, 5760}
                    \cup (8192..8202) \cup {8232, 8233, 8239, 8287, 12288}

RECURSIVE LStrip(_)
LStrip(s) == IF s = <<>> THEN s
             ELSE IF IsSpace(Head(s)) THEN LStrip(Tail(s)) ELSE s

RECURSIVE RStrip(_)
RStrip(s) == IF s = <<>> THEN s
             ELSE IF IsSpace(s[Len(s)]) THEN RStrip(SubSeq(s, 1, Len(s) - 1)) ELSE s

Strip(s) == RStrip(LStrip(s))

Contains(sub, s) ==
    \E i \in 1..(Len(s) - Len(sub) + 1) : SubSeq(s, i, i + Len(sub) - 1) = sub

\* stdout a status query can produce (exit status 0):
\* "active\n", "inactive\n", "", "active\f\n", "\x0b active\xa0\n"
LinuxOutputs == { <<97, 99, 116, 105, 118, 101, 10>>,
                  <<105, 110, 97, 99, 116, 105, 118, 101, 10>>,
                  <<>>,
                  <<97, 99, 116, 105, 118, 101, 12, 10>>,
                  <<11, 32, 97, 99, 116, 105, 118, 101, 160, 10>> }
\* "4 RUNNING\n", "1 STOPPED\n", "running"
WindowsOutputs == { <<52, 32, 82, 85, 78, 78, 73, 78, 71, 10>>,
                    <<49, 32, 83, 84, 79, 80, 80, 69, 68, 10>>,
                    <<114, 117, 110, 110, 105, 110, 103>> }

\* ---------------------------------------------------------------- inputs
Platforms == {"Linux", "Windows", "Darwin"}
Scripts == {"monitor", "manager"}
Delays == {1, 5}
Contexts == {"Failed to download Jenkins agent JAR", "Failed to start service"}
Outcomes == {"ok", "nonzero", "oserror"}

\* config["AGENT_DETAILS"][platform]["AGENT_NAME"]
\* "agent-1" on Linux, "win-2" on Windows
AgentName(p) == IF p = "Linux" THEN <<97, 103, 101, 110, 116, 45, 49>>
                ELSE <<119, 105, 110, 45, 50>>

\* --------------------------------------------------------------- state
\* emit holds the record of the logging call the program is inside of: all
\* the other variables already stand where the program is once the call
\* has returned, and log receives the record when the call writes it.
VARIABLES script, platform, secretSet, smtpPwdSet, dirExists,
          pc, exitCode, rc, issued, okCmds, fsOps, permGranted, log, emit,
          mon, sigCount, sigInLoop

inputs == <<script, platform, secretSet, smtpPwdSet, dirExists>>
sigs == <<sigCount, sigInLoop>>
vars == <<script, platform, secretSet, smtpPwdSet, dirExists,
          pc, exitCode, rc, issued, okCmds, fsOps, permGranted, log, emit,
          mon, sigCount, sigInLoop>>

\* ------------------------------------------------------------ exceptions
\* `except Exception` catches everything but the BaseException-only classes.
IsException(exc) == exc \notin {"SystemExit", "KeyboardInterrupt", "GeneratorExit"}

\* test.py never imports sys, so sys.exit(0) in signal_handler is a NameError.
SysImported == FALSE

signal_handler_exc == IF SysImported THEN "SystemExit" ELSE "NameError"

\* exit status of the interpreter when exc reaches the top level
UncaughtExit(exc) == IF exc = "SystemExit" THEN 0 ELSE 1

\* the signals for which test.py installs signal_handler
Signals == {"SIGINT", "SIGTERM"}

\* status of a process the signal ends under its default disposition
SignalStatus(sig) == IF sig = "SIGTERM" THEN -15 ELSE -2

\* --------------------------------------------------------------- logging
Entry(lvl, msg, secret) == [lvl |-> lvl, msg |-> msg, secret |-> secret]

\* commands whose argument vector embeds the agent secret
CmdHasSecret(cmd) == cmd \in {"sc.exe create"}

\* the messages of a set of records, as lines of a tick's log
RECURSIVE Lines(_)
Lines(recs) == IF recs = {} THEN <<>>
               ELSE LET e == CHOOSE x \in recs : TRUE
                    IN <<e.msg>> \o Lines(recs \ {e})

\* n copies of a line
Repeat(line, n) == [i \in 1..n |-> line]

\* where a signal finds the main thread: in the program's own code, or
\* inside Handler.emit of the logging call it is in, before or after the
\* record is written. emit's `except Exception: self.handleError(record)`
\* is then the innermost handler around signal_handler.
SignalLands(recs) == IF recs = {} THEN {"code"}
                     ELSE {"code", "emit_unwritten", "emit_written"}

\* ------------------------------------------------ run_command_with_retry
IdleCall == [pc |-> "idle", cmd |-> "none", ctx |-> "none", retries |-> 0,
             delay |-> 0, hist |-> <<>>, sleeps |-> <<>>,
             result |-> NoOutput, raised |-> "none"]

\* for attempt in range(retries): another iteration after `done` attempts
LoopContinuesOffByOne(done, retries) == done <= retries

LoopContinues(done, retries) == done < retries

\* raise RuntimeError(f"{error_message}")
RaisedMessage(ctx) == ctx

\* except subprocess.CalledProcessError
CaughtByRetry(exc) == exc = "CalledProcessError"

\* what subprocess.run(..., check=True) raises for an outcome
RunRaises(outcome) == IF outcome = "nonzero" THEN "CalledProcessError"
                      ELSE IF outcome = "oserror" THEN "FileNotFoundError"
                      ELSE "none"

\* position after one subprocess.run: return, handler (sleep) or propagate
AfterRunPcNoReturn(outcome) ==
    IF outcome = "ok" THEN "sleep"
    ELSE IF CaughtByRetry(RunRaises(outcome)) THEN "sleep" ELSE "error"

AfterRunPc(outcome) ==
    IF outcome = "ok" THEN "returned"
    ELSE IF CaughtByRetry(RunRaises(outcome)) THEN "sleep" ELSE "error"

\* the call is made: the function is entered, nothing has run yet
NewCall(cmd, ctx, retries, delay) ==
    [pc |-> "enter", cmd |-> cmd, ctx |-> ctx, retries |-> retries, delay |-> delay,
     hist |-> <<>>, sleeps |-> <<>>, result |-> NoOutput, raised |-> "none"]

\* the for loop starts: its body runs only if range(retries) is non-empty;
\* otherwise logging.critical and the raise are next
Entered(r) ==
    [r EXCEPT !.pc = IF LoopContinues(0, r.retries) THEN "run" ELSE "raising"]

AfterRun(r, outcome, out) ==
    [r EXCEPT !.pc = AfterRunPc(outcome),
              !.hist = Append(r.hist, outcome),
              !.result = IF AfterRunPc(outcome) = "returned" THEN out ELSE r.result]

\* time.sleep(delay) in the handler, then the next iteration or, the loop
\* being over, logging.critical
AfterSleepSkipLast(r) ==
    [r EXCEPT !.pc = IF LoopContinues(Len(r.hist), r.retries) THEN "run" ELSE "raising",
              !.sleeps = IF LoopContinues(Len(r.hist), r.retries)
                         THEN Append(r.sleeps, r.delay) ELSE r.sleeps]

AfterSleep(r) ==
    [r EXCEPT !.pc = IF LoopContinues(Len(r.hist), r.retries) THEN "run" ELSE "raising",
              !.sleeps = Append(r.sleeps, r.delay)]

\* the raise after logging.critical
AfterRaise(r) == [r EXCEPT !.pc = "raised", !.raised = RaisedMessage(r.ctx)]

\* the record run_command_with_retry logs while moving from r to r2
RetryLog(r, r2) ==
    (IF r.pc = "run" /\ r2.pc = "sleep"
       THEN {Entry("error", "attempt failed", CmdHasSecret(r.cmd))} ELSE {})
    \cup
    (IF r.pc # "raising" /\ r2.pc = "raising"
       THEN {Entry("critical", "command failed", CmdHasSecret(r2.cmd))} ELSE {})

\* ------------------------------------------------------------ call sites
\* command and error_message of the run_command_with_retry call made at pc
CmdAtSwapped(p) ==
    CASE p = "download" -> "curl"
      [] p = "reload"   -> "systemctl daemon-reload"
      [] p = "enable"   -> "systemctl start"
      [] p = "start"    -> "systemctl enable"
      [] p = "create"   -> "sc.exe create"
      [] p = "wstart"   -> "sc.exe start"
      [] p = "mon_query" /\ platform = "Linux" -> "systemctl is-active"
      [] p = "mon_query" /\ platform # "Linux" -> "sc.exe query"

CmdAt(p) ==
    CASE p = "download" -> "curl"
      [] p = "reload"   -> "systemctl daemon-reload"
      [] p = "enable"   -> "systemctl enable"
      [] p = "start"    -> "systemctl start"
      [] p = "create"   -> "sc.exe create"
      [] p = "wstart"   -> "sc.exe start"
      [] p = "mon_query" /\ platform = "Linux" -> "systemctl is-active"
      [] p = "mon_query" /\ platform # "Linux" -> "sc.exe query"

CtxAt(p) ==
    CASE p = "download" -> "Failed to download Jenkins agent JAR"
      [] p = "reload"   -> "Failed to reload systemd configuration"
      [] p = "enable"   -> "Failed to enable service"
      [] p = "start"    -> "Failed to start service"
      [] p = "create"   -> "Failed to create Windows service"
      [] p = "wstart"   -> "Failed to start Windows service"
      [] p = "mon_query" /\ platform = "Linux" -> "Failed to check status for Linux service"
      [] p = "mon_query" /\ platform # "Linux" -> "Failed to check status for Windows service"

CallAt(p) == NewCall(CmdAt(p), CtxAt(p), DefaultRetries, DefaultDelay)

\* stdout a successful command can print
OutputsOf(cmd) == IF cmd = "systemctl is-active" THEN LinuxOutputs
                  ELSE IF cmd = "sc.exe query" THEN WindowsOutputs
                  ELSE {<<>>}
\* assignment of the variables a step of the program writes; rec is the
\* record of the logging call the step ends in, {} when it ends elsewhere
Set(npc, nexit, nrc, nissued, nok, nfs, nperm, rec, nmon) ==
    /\ pc' = npc
    /\ exitCode' = nexit
    /\ rc' = nrc
    /\ issued' = nissued
    /\ okCmds' = nok
    /\ fsOps' = nfs
    /\ permGranted' = nperm
    /\ emit' = rec
    /\ mon' = nmon

\* the process ends with exit status code
Exit(code, nrc, nok, nfs, nperm, rec, nmon) ==
    Set("exit", code, nrc, issued, nok, nfs, nperm, rec, nmon)

\* ------------------------------------------------------- monitor_service
MonInit == [observed |-> <<>>, alertCalls |-> 0, tickAlerts |-> 0,
            tickOut |-> NoOutput, tickClass |-> "none", tickLog |-> <<>>,
            subject |-> <<>>, smtpFail |-> "unset", pause |-> <<>>]

\* is_active as computed from the query's stdout
IsActiveLinux(out) == Strip(out) = ACTIVE

IsActiveWindows(out) == Contains(RUNNING, out)

IsActive(p, out) == IF p = "Linux" THEN IsActiveLinux(out)
                    ELSE IF p = "Windows" THEN IsActiveWindows(out)
                    ELSE FALSE

\* f"Jenkins Agent Alert: {agent_name}"
AlertSubject(name) == AlertPrefix \o name

\* except Exception in monitor_service
CaughtByMonitorNarrow(exc) == exc = "RuntimeError"

CaughtByMonitor(exc) == IsException(exc)

\* except Exception in send_alert_email
CaughtBySendAlert(exc) == IsException(exc)

\* what the SMTP session raises when it fails at a step
SmtpSteps == {"connect", "starttls", "login", "sendmail"}

SmtpRaises(step) ==
    CASE step = "connect"  -> "OSError"
      [] step = "starttls" -> "SMTPNotSupportedError"
      [] step = "login"    -> "SMTPAuthenticationError"
      [] step = "sendmail" -> "SMTPRecipientsRefused"

\* positions of test.py. A blocking call is a position (download ... wstart
\* and mon_query with rc.pc = "run" or "sleep", write_unit, alert_smtp,
\* mon_sleep); so is every point between two of them where a signal would
\* find something else done or unwind differently:
\*   installed    install_service_* returned (line 202/204), before line 210
\*   mon_start    monitor_service entered (169), before the while loop
\*   mon_query    with rc.pc = "enter": inside the try (172-174), query not run
\*   mon_checked  is_active computed (176/180), before `if not is_active`
\*   mon_warned   at the 'is down' warning (183), before send_alert_email
\*   alert_enter  send_alert_email entered, before line 152
\*   alert_build  at 'Sending alert email' (152), message being built (153-156)
\*   alert_sent   at 'sent successfully' (163), inside the try
\*   alert_caught in send_alert_email's handler, before line 165
\*   alert_logged at 'Failed to send' (165), before the function returns
\*   alert_return send_alert_email returned, still inside monitor's try (184)
\*   mon_except   in monitor_service's handler, before line 186
\* an exception raised at these positions reaches monitor_service's handler
MonitorTryPcs == {"mon_query", "mon_checked", "mon_warned", "alert_enter",
                  "alert_build", "alert_caught", "alert_logged", "alert_return"}
\* an exception raised at these reaches send_alert_email's handler first
SendTryPcs == {"alert_smtp", "alert_sent"}

\* an exception leaves the body of monitor_service's try block
MonitorExcept(exc, nrc, nmon) ==
    IF CaughtByMonitor(exc)
    THEN Set("mon_except", exitCode, nrc, issued, okCmds, fsOps, permGranted, {}, nmon)
    ELSE Exit(UncaughtExit(exc), nrc, okCmds, fsOps, permGranted, {}, nmon)

\* an exception is raised inside the try block of send_alert_email
SendExcept(exc, fail, nrc, nmon) ==
    IF CaughtBySendAlert(exc)
    THEN Set("alert_caught", exitCode, nrc, issued, okCmds, fsOps, permGranted, {},
             [nmon EXCEPT !.smtpFail = fail])
    ELSE MonitorExcept(exc, nrc, [nmon EXCEPT !.smtpFail = fail])

\* the status query returned out: is_active is computed from it
Classify(out, nrc, nok, nmon) ==
    Set("mon_checked", exitCode, nrc, issued, nok, fsOps, permGranted, {},
        [nmon EXCEPT !.observed = Append(nmon.observed,
                                         IF IsActive(platform, out) THEN "Active"
                                         ELSE "Inactive"),
                     !.tickOut = out,
                     !.tickClass = IF IsActive(platform, out) THEN "Healthy" ELSE "Down"])

\* top of the while loop: a new tick enters the try and calls
\* run_command_with_retry; pause is what was slept since the previous tick
BeginTick(nok, rec, pause) ==
    Set("mon_query", exitCode, CallAt("mon_query"), issued, nok, fsOps, permGranted, rec,
        [mon EXCEPT !.tickAlerts = 0, !.tickOut = NoOutput, !.tickClass = "none",
                    !.tickLog = <<>>, !.smtpFail = "unset",
                    !.pause = pause])

\* monitor_service's handler logs the error; time.sleep(CHECK_INTERVAL) is next
MonitorHandlerNoSleep ==
    IF Len(mon.observed) < MaxTicks
    THEN BeginTick(okCmds, {Entry("error", "monitor error", FALSE)}, <<>>)
    ELSE Set("mon_sleep", exitCode, rc, issued, okCmds, fsOps, permGranted,
             {Entry("error", "monitor error", FALSE)}, mon)

MonitorHandler ==
    Set("mon_sleep", exitCode, rc, issued, okCmds, fsOps, permGranted,
        {Entry("error", "monitor error", FALSE)}, mon)

\* ------------------------------------------ continuations of a finished call
InstallPcs == {"download", "reload", "enable", "start", "create", "wstart"}
LoopPcs == MonitorTryPcs \cup SendTryPcs \cup {"mon_except", "mon_sleep"}

OnReturn(r2) ==
    LET ok == okCmds \cup {r2.cmd} IN
    CASE pc = "in_call" ->
           Set("called", exitCode, r2, issued, okCmds, fsOps, permGranted, {}, mon)
      [] pc = "download" ->
           \* main(): install by platform
           IF platform = "Linux"
           THEN Set("write_unit", exitCode, r2, issued, ok, fsOps \cup {"agent.jar"},
                    permGranted, {Entry("info", "configuring linux", FALSE)}, mon)
           ELSE IF platform = "Windows"
           THEN Set("create", exitCode, CallAt("create"), issued,
                    ok, fsOps \cup {"agent.jar"}, permGranted,
                    {Entry("info", "configuring windows", FALSE)}, mon)
           ELSE Exit(0, r2, ok, fsOps \cup {"agent.jar"}, permGranted,
                     {Entry("error", "unsupported platform", FALSE)}, mon)
      [] pc = "reload" ->
           Set("enable", exitCode, CallAt("enable"), issued, ok, fsOps, permGranted, {}, mon)
      [] pc = "enable" ->
           Set("start", exitCode, CallAt("start"), issued, ok, fsOps, permGranted, {}, mon)
      [] pc = "create" ->
           Set("wstart", exitCode, CallAt("wstart"), issued, ok, fsOps, permGranted, {}, mon)
      [] pc \in {"start", "wstart"} ->
           Set("installed", exitCode, r2, issued, ok, fsOps, permGranted,
               {Entry("info", "service installed", FALSE)}, mon)
      [] pc = "mon_query" ->
           Classify(r2.result, r2, ok, mon)

OnRaise(r2, exc) ==
    CASE pc = "in_call" ->
           Set("called", exitCode, r2, issued, okCmds, fsOps, permGranted, {}, mon)
      [] pc \in InstallPcs ->
           Exit(UncaughtExit(exc), r2, okCmds, fsOps, permGranted, {}, mon)
      [] pc = "mon_query" ->
           MonitorExcept(exc, r2,
                         [mon EXCEPT !.observed = Append(mon.observed, "QueryFailed")])

Continue(r2, exc) ==
    CASE r2.pc \in {"run", "sleep", "raising"} ->
           Set(pc, exitCode, r2, issued \cup (IF r2.pc = "run" THEN {r2.cmd} ELSE {}),
               okCmds, fsOps, permGranted, RetryLog(rc, r2), mon)
      [] r2.pc = "returned" -> OnReturn(r2)
      [] r2.pc = "error"    -> OnRaise(r2, exc)

\* ------------------------------------------------------------- actions
\* the logging call the program is in writes its record and returns; inside
\* the monitor loop the line belongs to the current tick
LoggingCall ==
    /\ emit # {}
    /\ log' = log \cup emit
    /\ emit' = {}
    /\ mon' = IF pc \in LoopPcs
              THEN [mon EXCEPT !.tickLog = mon.tickLog \o Lines(emit)]
              ELSE mon
    /\ UNCHANGED <<inputs, sigs, pc, exitCode, rc, issued, okCmds, fsOps, permGranted>>

\* run_command_with_retry / run_command is entered: the first subprocess.run
\* starts, or with an empty range(retries) logging.critical is called
EnterCall ==
    /\ emit = {}
    /\ rc.pc = "enter"
    /\ Continue(Entered(rc), "none")
    /\ UNCHANGED <<inputs, sigs, log>>

\* one subprocess.run of run_command_with_retry completes
RunCommand ==
    /\ emit = {}
    /\ script # "manager"
    /\ rc.pc = "run"
    /\ \E outcome \in Outcomes : \E out \in OutputsOf(rc.cmd) :
         /\ (outcome # "ok" => out = CHOOSE o \in OutputsOf(rc.cmd) : TRUE)
         /\ Continue(AfterRun(rc, outcome, out), RunRaises(outcome))
    /\ UNCHANGED <<inputs, sigs, log>>

\* the time.sleep(delay) of the except handler completes
RetrySleep ==
    /\ emit = {}
    /\ rc.pc = "sleep"
    /\ Continue(AfterSleep(rc), "none")
    /\ UNCHANGED <<inputs, sigs, log>>

\* raise RuntimeError(error_message) after the loop of run_command_with_retry
RaiseRuntimeError ==
    /\ emit = {}
    /\ rc.pc = "raising"
    /\ OnRaise(AfterRaise(rc), "RuntimeError")
    /\ UNCHANGED <<inputs, sigs, log>>

\* validate_configuration()
ValidateConfiguration ==
    /\ emit = {}
    /\ pc = "validate"
    /\ IF smtpPwdSet
       THEN Set("details", exitCode, rc, issued, okCmds, fsOps, permGranted,
                {Entry("info", "configuration validated", FALSE)}, mon)
       ELSE Exit(UncaughtExit("ValueError"), rc, okCmds, fsOps, permGranted, {}, mon)
    /\ UNCHANGED <<inputs, sigs, log>>

\* get_agent_details(), then download_jenkins_agent() up to its call of
\* run_command_with_retry
GetAgentDetails ==
    /\ emit = {}
    /\ pc = "details"
    /\ IF platform \notin {"Linux", "Windows"}
       THEN Exit(UncaughtExit("Exception"), rc, okCmds, fsOps, permGranted, {}, mon)
       ELSE IF ~secretSet
       THEN Exit(UncaughtExit("ValueError"), rc, okCmds, fsOps, permGranted, {}, mon)
       ELSE Set("download", exitCode, CallAt("download"), issued,
                okCmds, fsOps, permGranted,
                {Entry("info", "downloading", FALSE)}, mon)
    /\ UNCHANGED <<inputs, sigs, log>>

\* install_service_linux: open(service_path, "w") and write
WriteUnitFile ==
    /\ emit = {}
    /\ pc = "write_unit"
    /\ \E written \in BOOLEAN :
         IF written
         THEN Set("reload", exitCode, CallAt("reload"), issued,
                  okCmds, fsOps \cup {"unit file"}, permGranted, {}, mon)
         ELSE Exit(UncaughtExit("PermissionError"), rc, okCmds, fsOps, permGranted, {}, mon)
    /\ UNCHANGED <<inputs, sigs, log>>

\* main() and monitor_service between their blocking calls: one step
MonitorStep ==
    /\ emit = {}
    /\ pc \in {"installed", "mon_start", "mon_checked", "mon_warned",
               "alert_return", "mon_except"}
    /\ CASE pc = "installed" ->
              \* monitor_service(agent_name): logging.info('Starting monitoring')
              Set("mon_start", exitCode, rc, issued, okCmds, fsOps, permGranted,
                  {Entry("info", "starting monitoring", FALSE)}, mon)
         [] pc = "mon_start" -> BeginTick(okCmds, {}, <<>>)
         [] pc = "mon_checked" ->
              \* if not is_active: logging.warning(alert_message)
              IF mon.tickClass = "Down"
              THEN Set("mon_warned", exitCode, rc, issued, okCmds, fsOps, permGranted,
                       {Entry("warning", "service down", FALSE)}, mon)
              ELSE Set("mon_sleep", exitCode, rc, issued, okCmds, fsOps, permGranted,
                       {}, mon)
         [] pc = "mon_warned" ->
              \* send_alert_email(f"Jenkins Agent Alert: {agent_name}", ...)
              Set("alert_enter", exitCode, rc, issued, okCmds, fsOps, permGranted, {},
                  [mon EXCEPT !.alertCalls = mon.alertCalls + 1,
                              !.tickAlerts = mon.tickAlerts + 1,
                              !.subject = AlertSubject(AgentName(platform))])
         [] pc = "alert_return" ->
              Set("mon_sleep", exitCode, rc, issued, okCmds, fsOps, permGranted, {}, mon)
         [] pc = "mon_except" -> MonitorHandler
    /\ UNCHANGED <<inputs, sigs, log>>

\* send_alert_email outside its SMTP session: one step of the function
SendAlertStep ==
    /\ emit = {}
    /\ pc \in {"alert_enter", "alert_build", "alert_sent", "alert_caught", "alert_logged"}
    /\ CASE pc = "alert_enter" ->
              Set("alert_build", exitCode, rc, issued, okCmds, fsOps, permGranted,
                  {Entry("info", "sending alert", FALSE)}, mon)
         [] pc = "alert_build" ->
              Set("alert_smtp", exitCode, rc, issued, okCmds, fsOps, permGranted, {}, mon)
         [] pc = "alert_caught" ->
              Set("alert_logged", exitCode, rc, issued, okCmds, fsOps, permGranted,
                  {Entry("error", "alert failed", FALSE)}, mon)
         [] pc \in {"alert_sent", "alert_logged"} ->
              Set("alert_return", exitCode, rc, issued, okCmds, fsOps, permGranted,
                  {}, mon)
    /\ UNCHANGED <<inputs, sigs, log>>

\* the SMTP session of send_alert_email ends
SendAlertEmail ==
    /\ emit = {}
    /\ pc = "alert_smtp"
    /\ \E fail \in SmtpSteps \cup {"none"} :
         IF fail = "none"
         THEN Set("alert_sent", exitCode, rc, issued, okCmds, fsOps, permGranted,
                  {Entry("info", "alert sent", FALSE)},
                  [mon EXCEPT !.smtpFail = "none"])
         ELSE SendExcept(SmtpRaises(fail), fail, rc, mon)
    /\ UNCHANGED <<inputs, sigs, log>>

\* time.sleep(CHECK_INTERVAL) completes and the next tick begins
MonitorSleep ==
    /\ emit = {}
    /\ pc = "mon_sleep"
    /\ Len(mon.observed) < MaxTicks
    /\ BeginTick(okCmds, {}, <<CHECK_INTERVAL>>)
    /\ UNCHANGED <<inputs, sigs, log>>

\* SIGINT/SIGTERM in test.py: signal_handler runs in the main thread at the
\* next bytecode boundary, wherever the program stands. It logs its line and
\* raises; the exception unwinds from the interrupted position through the
\* enclosing try blocks. Inside Handler.emit of a logging call logging's own
\* handler swallows it: the program goes on, and the interrupted record is
\* lost unless it was already written. k signals are delivered together when
\* the later ones arrive while the first handler is still in its own
\* logging call, which leaves one to k shutdown lines.
Signal ==
    /\ script = "monitor"
    /\ pc # "exit"
    /\ sigCount < MaxSignals
    /\ \E sig \in Signals : \E k \in 1..(MaxSignals - sigCount) : \E lines \in 1..k :
       \E where \in SignalLands(emit) :
         LET exc  == signal_handler_exc
             kept == IF where = "emit_written" THEN emit ELSE {}
             nrc  == IF rc.pc \in {"enter", "run", "sleep", "raising"}
                     THEN [rc EXCEPT !.pc = "error"] ELSE rc
             tl   == IF pc \in LoopPcs
                     THEN mon.tickLog \o Lines(kept) \o Repeat("shutdown signal", lines)
                     ELSE mon.tickLog
             nmon == [mon EXCEPT !.tickLog = tl]
         IN /\ sigCount' = sigCount + k
            /\ sigInLoop' = (sigInLoop \/ pc \in LoopPcs)
            /\ log' = log \cup kept \cup {Entry("info", "shutdown signal", FALSE)}
            /\ CASE where # "code" /\ IsException(exc) ->
                      Set(pc, exitCode, rc, issued, okCmds, fsOps, permGranted, {}, nmon)
                 [] OTHER ->
                      CASE pc \in MonitorTryPcs ->
                             MonitorExcept(exc, nrc,
                                 [nmon EXCEPT !.observed =
                                     IF pc = "mon_query"
                                     THEN Append(mon.observed, "Interrupted")
                                     ELSE mon.observed])
                        [] pc \in SendTryPcs ->
                             SendExcept(exc, IF pc = "alert_smtp" THEN "signal"
                                             ELSE mon.smtpFail,
                                        nrc, nmon)
                        [] OTHER ->
                             Exit(UncaughtExit(exc), nrc, okCmds, fsOps, permGranted,
                                  {}, nmon)
    /\ UNCHANGED inputs

\* a direct call run_command_with_retry(command, error_message, retries, delay)
CallRunCommandWithRetry ==
    /\ emit = {}
    /\ pc = "call"
    /\ \E retries \in 0..MaxRetries : \E delay \in Delays : \E ctx \in Contexts :
         Set("in_call", exitCode, NewCall("curl", ctx, retries, delay), issued,
             okCmds, fsOps, permGranted, {}, mon)
    /\ UNCHANGED <<inputs, sigs, log>>

\* ------------------------------------------- Jenkins_agent_manager.py
\* Every logging call of the manager is a step of its own that leaves one
\* record in emit, and the process ends in a step of its own (ManagerEnd):
\* pc is "exit" only once the process has ended.
\* platform.system().lower()
get_platform == IF platform = "Linux" THEN "linux"
                ELSE IF platform = "Windows" THEN "windows" ELSE "darwin"

\* except subprocess.CalledProcessError in configure_linux_service
ConfigureCatches(exc) == exc = "CalledProcessError"

\* what run_command raises to its caller for an outcome of subprocess.run
RunCommandRaises(outcome) == IF outcome = "nonzero" THEN "RuntimeError"
                             ELSE RunRaises(outcome)

ManagerCmdPcs == {"m_download", "m_reload", "m_enable", "m_start", "m_create", "m_wstart"}

\* positions inside the try block of configure_linux_service
ConfigureLinuxPcs == {"m_grant", "m_write", "m_written", "m_revert",
                      "m_reload", "m_enable", "m_start"}

ManagerCmdAt(p) ==
    CASE p = "m_download" -> "curl"
      [] p = "m_grant"    -> "chmod o+w"
      [] p = "m_revert"   -> "chmod o-w"
      [] p = "m_reload"   -> "systemctl daemon-reload"
      [] p = "m_enable"   -> "systemctl enable"
      [] p = "m_start"    -> "systemctl start"
      [] p = "m_create"   -> "sc.exe create"
      [] p = "m_wstart"   -> "sc.exe start"

\* the single subprocess.run the manager makes at position p
ManagerCall(p) == NewCall(ManagerCmdAt(p), "none", 1, 0)

\* subprocess.run of the manager ended with outcome
ManagerDone(r, outcome) ==
    [r EXCEPT !.pc = IF outcome = "ok" THEN "returned" ELSE "error",
              !.hist = <<outcome>>]

\* except subprocess.CalledProcessError in run_command
RunCommandCatches(exc) == exc = "CalledProcessError"

\* positions of run_command after its subprocess.run, named by what comes
\* next: the logging calls of lines 99 and 104 and the return, or the
\* logging calls of lines 107 and 108 and the raise
RunCommandPcs == {"ok_err", "ok_done", "ok_return", "fail_out", "fail_err", "fail_raise"}

\* the position run_command reaches first for an outcome of subprocess.run
RunCommandFirst(outcome) == IF outcome = "ok" THEN "ok_err" ELSE "fail_out"

\* the position after the logging call made at position p
RunCommandNext(p) ==
    CASE p = "ok_err"   -> "ok_done"
      [] p = "ok_done"  -> "ok_return"
      [] p = "fail_out" -> "fail_err"
      [] p = "fail_err" -> "fail_raise"

\* the record of the logging call that ends at position p: lines 98, 99, 104
\* of the try block, lines 106, 107, 108 of the handler (line 106 formats the
\* CalledProcessError, which prints the argument vector)
RunCommandRecord(p, cmd) ==
    CASE p = "ok_err"     -> Entry("info", "command output", FALSE)
      [] p = "ok_done"    -> Entry("info", "command error output", FALSE)
      [] p = "ok_return"  -> Entry("info", "command completed", FALSE)
      [] p = "fail_out"   -> Entry("error", "command failed", CmdHasSecret(cmd))
      [] p = "fail_err"   -> Entry("error", "command output", FALSE)
      [] p = "fail_raise" -> Entry("error", "command error output", FALSE)

\* the manager arrives at the command of position p
ManagerIssue(p, nok, nfs, nperm, rec) ==
    Set(p, exitCode, ManagerCall(p), issued, nok, nfs, nperm, rec, mon)

\* an exception raised inside the manager at pc: caught by the handler of
\* configure_linux_service, which logs it and lets main return, or on its
\* way to the top level (kept in rc.raised)
ManagerRaise(exc, nrc) ==
    IF pc \in ConfigureLinuxPcs /\ ConfigureCatches(exc)
    THEN Set("m_return", exitCode, nrc, issued, okCmds, fsOps, permGranted,
             {Entry("error", "configure failed", FALSE)}, mon)
    ELSE Set("m_uncaught", exitCode, [nrc EXCEPT !.raised = exc], issued,
             okCmds, fsOps, permGranted, {}, mon)

\* the startup of main(): the logging calls of setup_logging, load_env_file,
\* load_config_file and validate_configuration
ManagerMain ==
    /\ emit = {}
    /\ pc \in {"m_main", "m_env", "m_config", "m_validate"}
    /\ CASE pc = "m_main" ->
              Set("m_env", exitCode, rc, issued, okCmds, fsOps, permGranted,
                  {Entry("info", "logging set up", FALSE)}, mon)
         [] pc = "m_env" ->
              Set("m_config", exitCode, rc, issued, okCmds, fsOps, permGranted,
                  {Entry("info", "env file loaded", FALSE)}, mon)
         [] pc = "m_config" ->
              Set("m_validate", exitCode, rc, issued, okCmds, fsOps, permGranted,
                  {Entry("info", "config file loaded", FALSE)}, mon)
         [] pc = "m_validate" ->
              Set("m_begin", exitCode, rc, issued, okCmds, fsOps, permGranted,
                  {Entry("info", "configuration validated", FALSE)}, mon)
    /\ UNCHANGED <<inputs, sigs, log>>

\* download_jenkins_agent before its curl: log line, os.makedirs, os.chmod
ManagerPrepare ==
    /\ emit = {}
    /\ pc \in {"m_begin", "m_mkdir", "m_chmod"}
    /\ CASE pc = "m_begin" ->
              Set("m_mkdir", exitCode, rc, issued, okCmds, fsOps, permGranted,
                  {Entry("info", "downloading", FALSE)}, mon)
         [] pc = "m_mkdir" ->
              Set("m_chmod", exitCode, rc, issued, okCmds,
                  fsOps \cup (IF dirExists THEN {} ELSE {"mkdir"}), permGranted, {}, mon)
         [] pc = "m_chmod" ->
              ManagerIssue("m_download", okCmds,
                           fsOps \cup (IF get_platform # "windows" THEN {"chmod 755"}
                                       ELSE {}),
                           permGranted, {})
    /\ UNCHANGED <<inputs, sigs, log>>

\* the caller's code after run_command has returned at pc:
\* download_jenkins_agent logs the path and returns to main, the configure
\* functions go on to their next command or return
ManagerAfter(nrc) ==
    CASE pc = "m_download" ->
           Set("m_dispatch", exitCode, nrc, issued, okCmds, fsOps, permGranted,
               {Entry("info", "agent jar downloaded", FALSE)}, mon)
      [] pc = "m_reload" -> ManagerIssue("m_enable", okCmds, fsOps, permGranted, {})
      [] pc = "m_enable" -> ManagerIssue("m_start", okCmds, fsOps, permGranted, {})
      [] pc = "m_create" -> ManagerIssue("m_wstart", okCmds, fsOps, permGranted, {})
      [] pc \in {"m_start", "m_wstart"} ->
           Set("m_return", exitCode, nrc, issued, okCmds, fsOps, permGranted, {}, mon)

\* run_command(command, error_message, logger), one step at a time: the
\* subprocess.run (no retry), then each logging call, then the return or
\* the raise of RuntimeError
ManagerRunCommand ==
    /\ emit = {}
    /\ script = "manager"
    /\ pc \in ManagerCmdPcs
    /\ rc.pc \in {"run"} \cup RunCommandPcs
    /\ CASE rc.pc = "run" ->
              \E outcome \in Outcomes :
                LET p == RunCommandFirst(outcome) IN
                IF outcome = "ok" \/ RunCommandCatches(RunRaises(outcome))
                THEN Set(pc, exitCode, [rc EXCEPT !.pc = p, !.hist = <<outcome>>], issued,
                         okCmds \cup (IF outcome = "ok" THEN {rc.cmd} ELSE {}),
                         fsOps \cup (IF outcome = "ok" /\ pc = "m_download"
                                     THEN {"agent.jar"} ELSE {}),
                         permGranted, {RunCommandRecord(p, rc.cmd)}, mon)
                ELSE ManagerRaise(RunCommandRaises(outcome), ManagerDone(rc, outcome))
         [] rc.pc \in {"ok_err", "ok_done", "fail_out", "fail_err"} ->
              LET p == RunCommandNext(rc.pc) IN
              Set(pc, exitCode, [rc EXCEPT !.pc = p], issued, okCmds, fsOps,
                  permGranted, {RunCommandRecord(p, rc.cmd)}, mon)
         [] rc.pc = "ok_return" ->
              ManagerAfter([rc EXCEPT !.pc = "returned"])
         [] rc.pc = "fail_raise" ->
              ManagerRaise(RunCommandRaises("nonzero"), [rc EXCEPT !.pc = "error"])
    /\ UNCHANGED <<inputs, sigs, log>>

\* main() dispatches on the platform; the configure functions check the
\* secret, raise ValueError without it, and log before their first command;
\* configure_linux_service logs before it reverts the permission
ManagerConfigure ==
    /\ emit = {}
    /\ pc \in {"m_dispatch", "m_nosecret", "m_written"}
    /\ CASE pc = "m_dispatch" ->
              IF get_platform \in {"linux", "windows"}
              THEN IF ~secretSet
                   THEN Set("m_nosecret", exitCode, rc, issued, okCmds, fsOps, permGranted,
                            {Entry("error", "secret not set", FALSE)}, mon)
                   ELSE IF get_platform = "linux"
                   THEN ManagerIssue("m_grant", okCmds, fsOps, permGranted,
                                     {Entry("info", "granting write permission", FALSE)})
                   ELSE ManagerIssue("m_create", okCmds, fsOps, permGranted,
                                     {Entry("info", "registering service", FALSE)})
              ELSE Set("m_return", exitCode, rc, issued, okCmds, fsOps, permGranted,
                       {Entry("error", "unsupported platform", FALSE)}, mon)
         [] pc = "m_nosecret" ->
              ManagerRaise("ValueError", rc)
         [] pc = "m_written" ->
              ManagerIssue("m_revert", okCmds, fsOps, permGranted,
                           {Entry("info", "reverting write permission", FALSE)})
    /\ UNCHANGED <<inputs, sigs, log>>

\* subprocess.run(["sudo", "chmod", ...], check=True) in configure_linux_service
ManagerChmod ==
    /\ emit = {}
    /\ script = "manager"
    /\ rc.pc = "run"
    /\ pc \in {"m_grant", "m_revert"}
    /\ \E outcome \in Outcomes :
         IF outcome = "ok"
         THEN IF pc = "m_grant"
              THEN Set("m_write", exitCode, ManagerDone(rc, outcome), issued,
                       okCmds \cup {"chmod o+w"}, fsOps, TRUE,
                       {Entry("info", "writing service file", FALSE)}, mon)
              ELSE ManagerIssue("m_reload", okCmds \cup {"chmod o-w"}, fsOps,
                                FALSE, {})
         ELSE ManagerRaise(RunRaises(outcome), ManagerDone(rc, outcome))
    /\ UNCHANGED <<inputs, sigs, log>>

\* open(service_file_path, "w") and write in configure_linux_service
ManagerWriteUnit ==
    /\ emit = {}
    /\ pc = "m_write"
    /\ \E written \in BOOLEAN :
         IF written
         THEN Set("m_written", exitCode, rc, issued, okCmds,
                  fsOps \cup {"unit file"}, permGranted,
                  {Entry("info", "service file written", FALSE)}, mon)
         ELSE ManagerRaise("PermissionError", rc)
    /\ UNCHANGED <<inputs, sigs, log>>

\* the process of the manager ends: main() has returned, or the exception
\* in rc.raised has reached the top level
ManagerEnd ==
    /\ emit = {}
    /\ pc \in {"m_return", "m_uncaught"}
    /\ Exit(IF pc = "m_return" THEN 0 ELSE UncaughtExit(rc.raised),
            rc, okCmds, fsOps, permGranted, {}, mon)
    /\ UNCHANGED <<inputs, sigs, log>>

\* the manager installs no signal handler: SIGTERM ends the process at once,
\* SIGINT raises KeyboardInterrupt, which nothing in the manager catches.
\* Either ends the process wherever it is; a logging call it interrupts has
\* written its record or not.
ManagerSignal ==
    /\ script = "manager"
    /\ pc # "exit"
    /\ sigCount < MaxSignals
    /\ \E sig \in Signals : \E where \in SignalLands(emit) :
         /\ log' = log \cup (IF where = "emit_written" THEN emit ELSE {})
         /\ Exit(SignalStatus(sig),
                 IF rc.pc \in {"enter", "run"} \cup RunCommandPcs
                 THEN [rc EXCEPT !.pc = "error"] ELSE rc,
                 okCmds, fsOps, permGranted, {}, mon)
    /\ sigCount' = sigCount + 1
    /\ UNCHANGED <<inputs, sigInLoop>>

\* ------------------------------------------------------ specifications
\* exitCode is -1 while the process runs
InitCommon ==
    /\ exitCode = -1
    /\ rc = IdleCall
    /\ issued = {}
    /\ okCmds = {}
    /\ fsOps = {}
    /\ permGranted = FALSE
    /\ log = {}
    /\ emit = {}
    /\ mon = MonInit
    /\ sigCount = 0
    /\ sigInLoop = FALSE

\* either script is started; handlers of test.py are installed at import
Init ==
    /\ script \in Scripts
    /\ platform \in Platforms
    /\ secretSet \in BOOLEAN
    /\ smtpPwdSet \in (IF script = "monitor" THEN BOOLEAN ELSE {TRUE})
    /\ dirExists \in (IF script = "manager" THEN BOOLEAN ELSE {TRUE})
    /\ pc = (IF script = "monitor" THEN "validate" ELSE "m_main")
    /\ InitCommon

Next ==
    \/ LoggingCall
    \/ ValidateConfiguration
    \/ GetAgentDetails
    \/ WriteUnitFile
    \/ EnterCall
    \/ RunCommand
    \/ RetrySleep
    \/ RaiseRuntimeError
    \/ MonitorStep
    \/ SendAlertStep
    \/ SendAlertEmail
    \/ MonitorSleep
    \/ Signal
    \/ ManagerMain
    \/ ManagerPrepare
    \/ ManagerRunCommand
    \/ ManagerConfigure
    \/ ManagerChmod
    \/ ManagerWriteUnit
    \/ ManagerEnd
    \/ ManagerSignal

Spec == Init /\ [][Next]_vars

\* run_command_with_retry called on its own with arbitrary arguments
InitRetry ==
    /\ script = "call"
    /\ platform = "Linux"
    /\ secretSet = TRUE
    /\ smtpPwdSet = TRUE
    /\ dirExists = TRUE
    /\ pc = "call"
    /\ InitCommon

NextRetry ==
    \/ CallRunCommandWithRetry
    \/ EnterCall
    \/ RunCommand
    \/ RetrySleep
    \/ RaiseRuntimeError
    \/ LoggingCall

SpecRetry == InitRetry /\ [][NextRetry]_vars

\* ================================================================ claims
Last(s) == s[Len(s)]

\* number of contiguous runs of Inactive in a sequence of observed statuses
InactiveRuns(s) ==
    Cardinality({i \in 1..Len(s) : s[i] = "Inactive" /\ (i = 1 \/ s[i-1] # "Inactive")})

AllFailed(r) == \A i \in 1..Len(r.hist) : r.hist[i] = "nonzero"

\* the while loop of monitor_service has started its first status query
LoopEntered == script = "monitor" /\ {"systemctl is-active", "sc.exe query"} \cap issued # {}

\* C1: the monitor alerts once per unbroken Down period: in a run with no
\* signal, when a tick's body has ended and every tick's status query
\* returned, the number of alert calls so far equals the number of contiguous
\* runs of Inactive observations.
C1_AlertOncePerOutage ==
    (/\ script = "monitor"
     /\ sigCount = 0
     /\ pc = "mon_sleep"
     /\ \A i \in 1..Len(mon.observed) : mon.observed[i] \in {"Active", "Inactive"})
        => mon.alertCalls = InactiveRuns(mon.observed)

\* C2: once a shutdown signal has been observed inside the monitor loop, no
\* status command is running, no alert is being sent and no sleep interval
\* has been started: the loop has been left.
C2_SignalStopsLoop ==
    sigInLoop => (pc \notin LoopPcs /\ rc.pc \notin {"run", "sleep"})

\* C3: a shutdown signal delivered to test.py produces the shutdown log
\* message and a process exit with exit status 0.
C3_SignalCleanExit ==
    (script = "monitor" /\ sigCount > 0) =>
        /\ Entry("info", "shutdown signal", FALSE) \in log
        /\ pc = "exit"
        /\ exitCode = 0

\* C4: run_command_with_retry never makes more than `retries` attempts; when
\* every attempt fails it sleeps `delay` after each attempt before the next
\* one, makes exactly `retries` attempts and raises an error carrying the
\* supplied error message; it raises that error in no other case.
C4_ExhaustedRetries ==
    /\ Len(rc.hist) <= rc.retries
    /\ \A i \in 1..Len(rc.sleeps) : rc.sleeps[i] = rc.delay
    /\ (rc.pc = "run" /\ AllFailed(rc)) => Len(rc.sleeps) = Len(rc.hist)
    /\ (pc = "called" /\ AllFailed(rc)) =>
           /\ rc.pc = "raised"
           /\ Len(rc.hist) = rc.retries
           /\ rc.raised = rc.ctx
           /\ Len(rc.sleeps) >= Len(rc.hist) - 1
    /\ rc.pc = "raised" => (AllFailed(rc) /\ Len(rc.hist) = rc.retries)

C4_Witness ==
    /\ pc = "called"
    /\ rc.pc = "raised"
    /\ rc.retries = 3
    /\ rc.hist = <<"nonzero", "nonzero", "nonzero">>
    /\ rc.raised = "Failed to start service"

\* C5: a successful attempt is the last attempt of the call: the call has
\* returned that attempt's result after exactly k <= retries attempts, the
\* first k-1 of which failed, and no error was raised.
C5_FirstSuccessReturns ==
    /\ \A i \in 1..Len(rc.hist) :
          rc.hist[i] = "ok" =>
             /\ i = Len(rc.hist)
             /\ i <= rc.retries
             /\ rc.pc = "returned"
             /\ pc = "called"
             /\ rc.result # NoOutput
             /\ rc.raised = "none"
             /\ \A j \in 1..(i-1) : rc.hist[j] = "nonzero"
    /\ rc.pc = "returned" => (Len(rc.hist) >= 1 /\ Last(rc.hist) = "ok")

C5_Witness ==
    /\ pc = "called"
    /\ rc.pc = "returned"
    /\ rc.retries = 3
    /\ rc.hist = <<"nonzero", "ok">>

\* C6: a tick whose status query exhausted its retries, with no alert
\* outstanding for the current outage, fires an alert in that tick.
C6_QueryFailureAlerts ==
    (/\ script = "monitor"
     /\ pc = "mon_sleep"
     /\ rc.pc = "raised"
     /\ Len(mon.observed) >= 1
     /\ Last(mon.observed) = "QueryFailed"
     /\ (Len(mon.observed) = 1 \/ mon.observed[Len(mon.observed) - 1] = "Active"))
        => mon.tickAlerts = 1

\* C7: a tick whose status query returned output that is not the active
\* token (Linux: stripped output equal to "active"; Windows: output containing
\* "RUNNING") is classified Down, never Healthy, and when its body has ended
\* it has made exactly one alert call whose subject contains the agent name;
\* a tick whose output is the active token is classified Healthy and makes no
\* alert call.  The output "inactive\n" is Down, "active\n" is Healthy.
C7_NonActiveOutputAlerts ==
    (script = "monitor" /\ mon.tickOut # NoOutput) =>
        /\ IF \/ platform = "Linux" /\ Strip(mon.tickOut) = ACTIVE
              \/ platform = "Windows" /\ Contains(RUNNING, mon.tickOut)
           THEN mon.tickClass = "Healthy" /\ mon.tickAlerts = 0
           ELSE /\ mon.tickClass = "Down"
                /\ mon.tickAlerts <= 1
                /\ pc = "mon_sleep" =>
                      /\ mon.tickAlerts = 1
                      /\ Contains(AgentName(platform), mon.subject)
        /\ mon.tickOut = <<105, 110, 97, 99, 116, 105, 118, 101, 10>> => mon.tickClass = "Down"
        /\ mon.tickOut = <<97, 99, 116, 105, 118, 101, 10>> => mon.tickClass = "Healthy"

\* C8: once the monitor loop has been entered and no shutdown signal has
\* been delivered, the process is in the loop (querying, alerting or
\* sleeping), whatever failed in earlier ticks; it has not exited.
C8_LoopSurvivesTickFailure ==
    (script = "monitor" /\ LoopEntered /\ sigCount = 0)
        => (pc \in LoopPcs /\ exitCode = -1)

C8_Witness ==
    /\ pc = "mon_sleep"
    /\ exitCode = -1
    /\ sigCount = 0
    /\ Len(mon.observed) = 2
    /\ mon.observed[1] = "QueryFailed"
    /\ mon.observed[2] = "Inactive"
    /\ Entry("error", "alert failed", FALSE) \in log
    /\ Entry("error", "monitor error", FALSE) \in log

\* C9: when the SMTP session of an alert failed at some step (connect,
\* STARTTLS, login, sendmail), send_alert_email ends by returning to the tick
\* body: once it has ended the failure is in the tick's log and nothing has
\* reached the handler of monitor_service.
C9_SendNeverRaises ==
    (/\ script = "monitor"
     /\ mon.smtpFail \in SmtpSteps
     /\ pc \in {"alert_return", "mon_except", "mon_sleep"}) =>
        /\ pc # "mon_except"
        /\ \E i \in 1..Len(mon.tickLog) : mon.tickLog[i] = "alert failed"
        /\ \A i \in 1..Len(mon.tickLog) : mon.tickLog[i] # "monitor error"

\* C10: with the platform secret absent nothing is mutated: no file-system
\* change (directory creation, chmod, download, service file) and no command.
C10_NoMutationWithoutSecret ==
    (platform \in {"Linux", "Windows"} /\ ~secretSet)
        => (fsOps = {} /\ issued = {} /\ ~permGranted)

\* the last installation step (start of the service) has succeeded
InstallCompleted == "systemctl start" \in okCmds \/ "sc.exe start" \in okCmds

\* C11: on a platform other than Linux or Windows nothing is mutated (no
\* directory creation or chmod, no download, no service file, no command) and
\* the run ends with a non-zero exit status.
C11_UnsupportedPlatformNoMutation ==
    platform \notin {"Linux", "Windows"} =>
        /\ fsOps = {}
        /\ issued = {}
        /\ ~permGranted
        /\ (pc = "exit" /\ sigCount = 0) => exitCode > 0

\* C12: a run that ends before the installation has completed (a fatal
\* configuration or installation error) ends with a non-zero exit status,
\* and the monitor loop is entered only after a completed installation.
C12_FatalErrorExitsNonZero ==
    /\ (pc = "exit" /\ sigCount = 0 /\ ~InstallCompleted) => exitCode > 0
    /\ LoopEntered => InstallCompleted

\* C13: no log entry contains the agent secret.
C13_SecretNeverLogged ==
    \A e \in log : ~e.secret

\* C14: an installation step is executed only after every earlier step has
\* succeeded, and an installer that stopped before its last step reported the
\* failure (the run ends with an uncaught error) instead of returning normally.
C14_InstallAbortsOnFirstFailure ==
    /\ "chmod o-w" \in issued => ("chmod o+w" \in okCmds /\ "unit file" \in fsOps)
    /\ "systemctl daemon-reload" \in issued =>
           ("unit file" \in fsOps /\ (script = "manager" => "chmod o-w" \in okCmds))
    /\ "systemctl enable" \in issued => "systemctl daemon-reload" \in okCmds
    /\ "systemctl start" \in issued => "systemctl enable" \in okCmds
    /\ "sc.exe start" \in issued => "sc.exe create" \in okCmds
    /\ (/\ platform \in {"Linux", "Windows"}
        /\ secretSet
        /\ "curl" \in okCmds
        /\ pc = "exit"
        /\ sigCount = 0
        /\ ~InstallCompleted) => exitCode > 0

\* C16: the write permission on the service directory is no longer granted
\* when configure_linux_service has ended, and no systemctl command runs
\* while it is granted.
C16_WritePermissionReverted ==
    /\ pc = "exit" => ~permGranted
    /\ pc \in {"m_reload", "m_enable", "m_start"} => ~permGranted

\* C15: test.py on Linux issues no command other than curl and the four
\* systemctl commands; daemon-reload is issued only after the unit file has
\* been written, enable only after daemon-reload succeeded, start only after
\* enable succeeded and is-active only after start succeeded, from the
\* monitor loop.
C15_LinuxCommandOrder ==
    (script = "monitor" /\ platform = "Linux") =>
        /\ issued \subseteq {"curl", "systemctl daemon-reload", "systemctl enable",
                             "systemctl start", "systemctl is-active"}
        /\ "systemctl daemon-reload" \in issued => "unit file" \in fsOps
        /\ "systemctl enable" \in issued => "systemctl daemon-reload" \in okCmds
        /\ "systemctl start" \in issued => "systemctl enable" \in okCmds
        /\ "systemctl is-active" \in issued => "systemctl start" \in okCmds
        /\ (rc.pc = "run" /\ rc.cmd = "systemctl is-active") => pc = "mon_query"

C15_Witness ==
    /\ script = "monitor"
    /\ platform = "Linux"
    /\ pc = "mon_query"
    /\ rc.pc = "run"
    /\ rc.cmd = "systemctl is-active"
    /\ mon.observed = <<>>
    /\ {"systemctl daemon-reload", "systemctl enable", "systemctl start"} \subseteq okCmds
    /\ "unit file" \in fsOps

\* C17: a tick of the monitor loop begins (the try block is entered for a
\* status query) only as the completion of time.sleep(CHECK_INTERVAL), exactly
\* one sleep of the configured interval since the previous tick's body,
\* whatever that tick's outcome was; only the first tick begins without one.
C17_OneIntervalSleepBetweenTicks ==
    [][(/\ script = "monitor"
        /\ pc # "mon_query"
        /\ pc' = "mon_query")
           => \/ pc = "mon_start" /\ mon.observed = <<>>
              \/ pc = "mon_sleep" /\ mon'.pause = <<CHECK_INTERVAL>>]_vars

C17_Witness ==
    /\ pc = "mon_query"
    /\ rc.pc = "run"
    /\ rc.hist = <<>>
    /\ mon.observed = <<"QueryFailed">>
    /\ mon.pause = <<CHECK_INTERVAL>>

NonZeroCount(h) == Cardinality({i \in 1..Len(h) : h[i] = "nonzero"})

\* C18: run_command_with_retry sleeps `delay` once after every failed
\* attempt, the last one included, and never after a successful one: a call
\* that raised has slept `retries` times, a call that returned on attempt k
\* has slept k - 1 times.
C18_SleepAfterEveryFailure ==
    /\ \A i \in 1..Len(rc.sleeps) : rc.sleeps[i] = rc.delay
    /\ Len(rc.sleeps) = NonZeroCount(rc.hist) - (IF rc.pc = "sleep" THEN 1 ELSE 0)
    /\ rc.pc = "raised" => Len(rc.sleeps) = rc.retries
    /\ rc.pc = "returned" => Len(rc.sleeps) = Len(rc.hist) - 1

C18_Witness ==
    /\ pc = "called"
    /\ rc.pc = "raised"
    /\ rc.retries = 2
    /\ rc.delay = 5
    /\ rc.hist = <<"nonzero", "nonzero">>
    /\ rc.sleeps = <<5, 5>>

====
